---------------------------- MODULE Spec2Model ----------------------------
(***************************************************************************)
(* Model of src/app.py: BenningSolarMetricsWorker.                         *)
(*                                                                         *)
(* One worker thread runs __init__ (mqtt_connect, then every), and every   *)
(* loops forever: sleep until next_time, call do_repeat inside             *)
(* try/except Exception, advance next_time.  do_repeat fetches the device  *)
(* table over HTTP, parses it row by row and publishes it over MQTT.       *)
(*                                                                         *)
(* Text is a sequence of tokens.  ";", the line breaks and the double      *)
(* quote are single-character tokens, digits and "." are single-character  *)
(* tokens, and every other token stands for a run of characters that       *)
(* holds none of these.  Time is counted in whole clock units.  A float    *)
(* is a decimal number [m, e] standing for m / 10^e, kept without          *)
(* trailing zeros, so that equal numbers are equal records.                *)
(***************************************************************************)
EXTENDS Integers, Sequences, FiniteSets, TLC

(***************************************************************************)
(* Bounds of the model.                                                    *)
(***************************************************************************)
MaxTime == 6        \* the clock stops the model at this time
MaxRows == 2        \* rows in one response body
MaxDelay == 2       \* config['repeat'] is drawn from 1..MaxDelay
MaxStart == 1       \* every() is entered at a time in 0..MaxStart

(***************************************************************************)
(* Characters with a meaning for the parser.                               *)
(***************************************************************************)
SEMI == ";"
LF == "\n"
CR == "\r"
QUOTE == "\""
LineBreaks == {LF, CR}
Digits == {"0", "1", "2", "3", "4", "5", "6", "7", "8", "9"}

DigitValue(c) ==
    CASE c = "0" -> 0 [] c = "1" -> 1 [] c = "2" -> 2 [] c = "3" -> 3
      [] c = "4" -> 4 [] c = "5" -> 5 [] c = "6" -> 6 [] c = "7" -> 7
      [] c = "8" -> 8 [] c = "9" -> 9

(***************************************************************************)
(* str.splitlines(): a line ends at "\n", "\r" or "\r\n"; the break is     *)
(* not part of the line; a break at the very end opens no further line.    *)
(* BreakEnds are the positions of the last character of each break,        *)
(* BreakStart the position of its first character.                         *)
(***************************************************************************)
Min(S) == CHOOSE x \in S : \A y \in S : x <= y

BreakEnds(s) ==
    {i \in 1..Len(s) :
        \/ s[i] = LF
        \/ s[i] = CR /\ ~(i < Len(s) /\ s[i + 1] = LF)}

BreakStart(s, i) == IF s[i] = LF /\ i > 1 /\ s[i - 1] = CR THEN i - 1 ELSE i

RECURSIVE LinesAt(_, _, _)
LinesAt(s, from, ends) ==
    IF from > Len(s) THEN <<>>
    ELSE IF {e \in ends : e >= from} = {} THEN <<SubSeq(s, from, Len(s))>>
    ELSE LET e == Min({x \in ends : x >= from}) IN
         <<SubSeq(s, from, BreakStart(s, e) - 1)>> \o LinesAt(s, e + 1, ends)

splitlines(text) == LinesAt(text, 1, BreakEnds(text))

(***************************************************************************)
(* str.split(';'): the fields between the separators; always at least one  *)
(* field, the empty string gives one empty field.                          *)
(***************************************************************************)
RECURSIVE FieldsAt(_, _, _)
FieldsAt(s, from, seps) ==
    IF {p \in seps : p >= from} = {} THEN <<SubSeq(s, from, Len(s))>>
    ELSE LET p == Min({x \in seps : x >= from}) IN
         <<SubSeq(s, from, p - 1)>> \o FieldsAt(s, p + 1, seps)

split(line) == FieldsAt(line, 1, {i \in 1..Len(line) : line[i] = SEMI})

(***************************************************************************)
(* str.strip('"'): drop the quotes at both ends.                           *)
(***************************************************************************)
RECURSIVE lstrip(_)
lstrip(s) == IF s # <<>> /\ Head(s) = QUOTE THEN lstrip(Tail(s)) ELSE s

RECURSIVE rstrip(_)
rstrip(s) ==
    IF s # <<>> /\ s[Len(s)] = QUOTE THEN rstrip(SubSeq(s, 1, Len(s) - 1)) ELSE s

strip(s) == rstrip(lstrip(s))

(***************************************************************************)
(* Decimal numbers.                                                        *)
(***************************************************************************)
RECURSIVE Norm(_, _)
Norm(m, e) ==
    IF e > 0 /\ m % 10 = 0 THEN Norm(m \div 10, e - 1) ELSE [m |-> m, e |-> e]

Num(n) == Norm(n, 0)
Mul(a, b) == Norm(a.m * b.m, a.e + b.e)

(***************************************************************************)
(* float(s) for an unsigned decimal literal: digits with at most one ".",  *)
(* at least one digit.  Everything else raises ValueError.                 *)
(***************************************************************************)
IsFloat(s) ==
    /\ \A i \in 1..Len(s) : s[i] \in Digits \cup {"."}
    /\ Cardinality({i \in 1..Len(s) : s[i] = "."}) <= 1
    /\ \E i \in 1..Len(s) : s[i] \in Digits

RECURSIVE FloatFrom(_, _, _, _)
FloatFrom(s, m, e, seenDot) ==
    IF s = <<>> THEN Norm(m, e)
    ELSE IF Head(s) = "." THEN FloatFrom(Tail(s), m, e, TRUE)
    ELSE FloatFrom(Tail(s), 10 * m + DigitValue(Head(s)),
                   IF seenDot THEN e + 1 ELSE e, seenDot)

float(s) == FloatFrom(s, 0, 0, FALSE)


(***************************************************************************)
(* The strings the code compares with.                                     *)
(***************************************************************************)
UnitMultiplier == <<"1", ".", "0", "0", "0", "0", "0", "0">>
BackupTimestamp == <<"SystemState_persistent.Global.LastSystemBackupTimestamp">>
SendProtocolTimestamp == <<"SystemState_persistent.SolarPortal.LastSendProtocolTimestamp">>

(***************************************************************************)
(* Multiplier rule of one row.                                             *)
(***************************************************************************)
\* Variant: the multiplier field is not looked at.
ScaledValueRaw(rawvalue, multiplier) == float(rawvalue)

ScaledValue(rawvalue, multiplier) ==
    IF multiplier # UnitMultiplier
    THEN Mul(float(rawvalue), float(multiplier))
    ELSE float(rawvalue)

(***************************************************************************)
(* The three unit rules and the two descriptor rules, applied one after    *)
(* the other to (unit, unit_zabbix, value).                                *)
(***************************************************************************)
RuleMilliAmpere(u) ==
    IF u.unit = <<"mA">>
    THEN [unit |-> <<"A">>, unit_zabbix |-> <<"A">>, value |-> Mul(u.value, Num(1000))]
    ELSE u

\* Variant: kWh keeps its unit_zabbix.
RuleKiloWattHourPlain(u) == u

RuleKiloWattHour(u) ==
    IF u.unit = <<"kWh">> THEN [u EXCEPT !.unit_zabbix = <<"!kWh">>] ELSE u

\* Variant: the value is scaled to seconds, the unit stays 'h'.
RuleHourKeepUnit(u) ==
    IF u.unit = <<"h">>
    THEN [unit |-> <<"h">>, unit_zabbix |-> <<"s">>, value |-> Mul(u.value, Num(3600))]
    ELSE u

RuleHour(u) ==
    IF u.unit = <<"h">>
    THEN [unit |-> <<"s">>, unit_zabbix |-> <<"s">>, value |-> Mul(u.value, Num(3600))]
    ELSE u

\* Variant: only the backup timestamp is recognised.
RuleTimestampBackupOnly(descriptor, u) ==
    IF descriptor = BackupTimestamp
    THEN [u EXCEPT !.unit_zabbix = <<"unixtime">>]
    ELSE u

RuleTimestamp(descriptor, u) ==
    IF descriptor = BackupTimestamp \/ descriptor = SendProtocolTimestamp
    THEN [u EXCEPT !.unit_zabbix = <<"unixtime">>]
    ELSE u

Normalize(descriptor, unit, value) ==
    RuleTimestamp(descriptor,
        RuleHour(RuleKiloWattHour(RuleMilliAmpere(
            [unit |-> unit, unit_zabbix |-> unit, value |-> value]))))

(***************************************************************************)
(* The body of the for loop for one line.  v[k] of the code is v[k + 1]    *)
(* here.  The result is the metric, or the exception the line raises, in   *)
(* the order in which the code reaches them.                               *)
(***************************************************************************)
Raised(e) == [exc |-> e, metric |-> <<>>]

ParseLine(line) ==
    LET v == split(line) IN
    IF Len(v) < 6 THEN Raised("IndexError")
    ELSE IF ~IsFloat(v[4]) THEN Raised("ValueError")
    ELSE IF v[6] # UnitMultiplier /\ ~IsFloat(v[6]) THEN Raised("ValueError")
    ELSE IF Len(v) < 7 THEN Raised("IndexError")
    ELSE LET n == Normalize(v[2], v[7], ScaledValue(v[4], v[6])) IN
         [exc |-> "none",
          metric |-> [id |-> v[1], descriptor |-> v[2], type |-> v[3],
                      value |-> n.value, description |-> strip(v[5]),
                      unit |-> n.unit, unit_zabbix |-> n.unit_zabbix]]

(***************************************************************************)
(* allmetrics = [] and allmetrics.append(metric).                          *)
(***************************************************************************)
NewMetrics == <<>>

\* Variant: the new metric is put in front of the list.
AppendMetricFront(allmetrics, metric) == <<metric>> \o allmetrics

AppendMetric(allmetrics, metric) == Append(allmetrics, metric)

\* Variant: a line that raises is skipped, the loop goes on.
RECURSIVE ParseFromSkip(_, _, _)
ParseFromSkip(lines, allmetrics, linecnt) ==
    IF lines = <<>>
    THEN [exc |-> "none", allmetrics |-> allmetrics, linecnt |-> linecnt]
    ELSE LET r == ParseLine(Head(lines)) IN
         IF r.exc # "none"
         THEN ParseFromSkip(Tail(lines), allmetrics, linecnt + 1)
         ELSE ParseFromSkip(Tail(lines), Append(allmetrics, r.metric), linecnt + 1)

(***************************************************************************)
(* The for loop over the lines: it ends at the first line that raises.     *)
(***************************************************************************)
RECURSIVE ParseFrom(_, _, _)
ParseFrom(lines, allmetrics, linecnt) ==
    IF lines = <<>>
    THEN [exc |-> "none", allmetrics |-> allmetrics, linecnt |-> linecnt]
    ELSE LET r == ParseLine(Head(lines)) IN
         IF r.exc # "none"
         THEN [exc |-> r.exc, allmetrics |-> allmetrics, linecnt |-> linecnt + 1]
         ELSE ParseFrom(Tail(lines), AppendMetric(allmetrics, r.metric), linecnt + 1)

ParseLoop(text) == ParseFrom(splitlines(text), NewMetrics, 0)

(***************************************************************************)
(* What the device can send.  A row is the sequence of its fields and the  *)
(* line break that ends it; the body is the rows written one after the     *)
(* other, the fields of a row joined by ";".  RowFrequency is the row the  *)
(* source quotes; RowBackup has only the seven fields the code reads;      *)
(* RowShort lacks fields, RowText has a value that is no number, RowEmpty  *)
(* is an empty line.                                                       *)
(***************************************************************************)
RowFrequency ==
    [fields |-> << <<"11305">>, <<"SystemState.Global.Measurement.ACFrequency">>,
                   <<"F">>, <<"5", "0", ".", "0", "2", "3", "1", "9", "3">>,
                   <<QUOTE, "AC Netz Frequenz", QUOTE>>, UnitMultiplier, <<"Hz">>,
                   <<"2">>, <<"1">>, <<"2">>, <<"1">>,
                   <<"0", ".", "0", "0", "0", "0", "0", "0">>,
                   <<"0", ".", "0", "0", "0", "0", "0", "0">>,
                   <<"0">>, <<"0">>, <<"0">> >>,
     eol |-> <<LF>>]

RowBackup ==
    [fields |-> << <<"11400">>, BackupTimestamp, <<"F">>, <<"2">>,
                   <<QUOTE, "Backup", QUOTE>>, <<"0", ".", "5">>, <<"h">> >>,
     eol |-> <<CR, LF>>]

RowShort ==
    [fields |-> << <<"11500">>, <<"SystemState.Short">>, <<"F">>, <<"1">> >>,
     eol |-> <<LF>>]

RowText ==
    [fields |-> << <<"11600">>, <<"SystemState.Text">>, <<"S">>, <<"n/a">>,
                   <<QUOTE, QUOTE>>, UnitMultiplier, <<"kWh">> >>,
     eol |-> <<LF>>]

RowEmpty == [fields |-> << <<>> >>, eol |-> <<LF>>]

DeviceRows == {RowFrequency, RowBackup, RowShort, RowText, RowEmpty}

RECURSIVE Join(_)
Join(fields) ==
    IF Len(fields) = 1 THEN fields[1]
    ELSE fields[1] \o <<SEMI>> \o Join(Tail(fields))

RECURSIVE Render(_)
Render(rows) ==
    IF rows = <<>> THEN <<>>
    ELSE Join(Head(rows).fields) \o Head(rows).eol \o Render(Tail(rows))

RECURSIVE SeqsUpTo(_, _)
SeqsUpTo(S, n) ==
    IF n = 0 THEN {<<>>}
    ELSE LET shorter == SeqsUpTo(S, n - 1) IN
         shorter \cup {Append(q, x) : q \in shorter, x \in S}

DeviceBodies == SeqsUpTo(DeviceRows, MaxRows)

StatusCodes == {200, 204, 500}

(***************************************************************************)
(* State.                                                                  *)
(*   pc              where the worker thread is                            *)
(*   now             the clock as the thread read it last, time.time()     *)
(*   delay           config['repeat']                                      *)
(*   next_time       local of every()                                      *)
(*   mqtt_connected  self.mqtt_connected                                   *)
(*   res             local of do_repeat: what requests.get gave            *)
(*   allmetrics      local of do_repeat: the list the parse loop builds    *)
(*   exc             the exception in flight in do_repeat, "none" if none  *)
(* History variables, written and never read by the program.               *)
(*   first_time      next_time as every() initialised it                   *)
(*   fired           next_time of the tick that was called last, -1 before *)
(*                   the first call                                        *)
(*   inflight        calls of the task that have not returned              *)
(*   sent            the rows the device wrote into res.text               *)
(*   calls           what the tick in flight has done so far; before the   *)
(*                   first tick, what __init__ did                         *)
(*   last_exc        how the previous call of the task ended               *)
(*   prev_tick       what the previous tick did: "published", "reconnected"*)
(*                   (the connect attempt of its else branch succeeded),   *)
(*                   "other", or "none" before the first tick has ended    *)
(***************************************************************************)
VARIABLES pc, now, delay, next_time, mqtt_connected, res, allmetrics, exc,
          first_time, fired, inflight, sent, calls, last_exc, prev_tick

vars == <<pc, now, delay, next_time, mqtt_connected, res, allmetrics, exc,
          first_time, fired, inflight, sent, calls, last_exc, prev_tick>>

NoResponse == [kind |-> "none", status_code |-> 0, text |-> <<>>]

Call(op, arg) == [op |-> op, arg |-> arg]

Init ==
    /\ pc = "init"
    /\ now = 0
    /\ delay \in 1..MaxDelay
    /\ next_time = 0
    /\ mqtt_connected = FALSE
    /\ res = NoResponse
    /\ allmetrics = <<>>
    /\ exc = "none"
    /\ first_time = 0
    /\ fired = -1
    /\ inflight = 0
    /\ sent = <<>>
    /\ calls = <<>>
    /\ last_exc = "none"
    /\ prev_tick = "none"

(***************************************************************************)
(* mqtt_connect(): connect() returns or raises; the flag says which.       *)
(***************************************************************************)
\* Variant: the flag is not set after a connect that returned.
mqtt_connectNoFlag(connects) == FALSE

mqtt_connect(connects) == connects

(***************************************************************************)
(* next_time = time.time(): the first fire time is the time every() is     *)
(* entered at, not one interval later.                                     *)
(***************************************************************************)
\* Variant: next_time = time.time() + delay.
FirstFireDelayed(t, d) == t + d

FirstFire(t, d) == t

(***************************************************************************)
(* __init__: mqtt_connect(), then every() reads the clock into next_time   *)
(* and enters the loop.  The connect attempt blocks for a while.           *)
(***************************************************************************)
Construct ==
    /\ pc = "init"
    /\ \E connects \in BOOLEAN, t \in 0..MaxStart :
         /\ mqtt_connected' = mqtt_connect(connects)
         /\ calls' = <<Call("connect", connects)>>
         /\ now' = t
         /\ next_time' = FirstFire(t, delay)
         /\ first_time' = FirstFire(t, delay)
    /\ pc' = "sleep"
    /\ UNCHANGED <<delay, res, allmetrics, exc, fired, inflight, sent, last_exc,
                   prev_tick>>

(***************************************************************************)
(* time.sleep(max(0, next_time - time.time())): the thread wakes up when   *)
(* the time slept has passed, or later.                                    *)
(***************************************************************************)
\* Variant: sleep(0), the thread does not wait for next_time.
WakeTimesNoWait(t, next) == {w \in 0..MaxTime : w >= t}

WakeTimes(t, next) ==
    LET secs == IF next - t > 0 THEN next - t ELSE 0 IN
    {w \in 0..MaxTime : w >= t + secs}

Sleep ==
    /\ pc = "sleep"
    /\ \E w \in WakeTimes(now, next_time) : now' = w
    /\ pc' = "call"
    /\ UNCHANGED <<delay, next_time, mqtt_connected, res, allmetrics, exc,
                   first_time, fired, inflight, sent, calls, last_exc, prev_tick>>

(***************************************************************************)
(* try: task()                                                             *)
(***************************************************************************)
CallTask ==
    /\ pc = "call"
    /\ pc' = "fetch"
    /\ inflight' = inflight + 1
    /\ fired' = next_time
    /\ calls' = <<>>
    /\ exc' = "none"
    /\ UNCHANGED <<now, delay, next_time, mqtt_connected, res, allmetrics,
                   first_time, sent, last_exc, prev_tick>>

(***************************************************************************)
(* requests.get(url, auth=auth) raises, or returns a response.  The        *)
(* except clause of do_repeat names ConnectionError only; the handler      *)
(* logs and falls through to the end of do_repeat.  Any other exception    *)
(* of requests (a response cut off while it is read) leaves do_repeat.     *)
(***************************************************************************)
GetExceptions == {"ConnectionError", "ChunkedEncodingError"}

HandledByFetch(e) == e = "ConnectionError"

\* Variant: the publish step is outside the else branch of the try.
AfterConnectionErrorPublish == "publish"

\* Variant: the handler issues the request again.
AfterConnectionErrorRetry == "fetch"

AfterConnectionError == "ret"

\* Variant: every 2xx status is taken as success.
StatusOkAny2xx(status_code) == status_code \in 200..299

StatusOk(status_code) == status_code = 200

(***************************************************************************)
(* The request of one tick.  A 200 response goes on to the parse loop,     *)
(* any other status raises Error.                                          *)
(***************************************************************************)
Fetch ==
    /\ pc = "fetch"
    /\ last_exc' = "none"
    /\ \/ \E e \in GetExceptions :
            /\ res' = [kind |-> e, status_code |-> 0, text |-> <<>>]
            /\ sent' = <<>>
            /\ calls' = Append(calls, Call("get", e))
            /\ IF HandledByFetch(e)
               THEN exc' = "none" /\ pc' = AfterConnectionError
               ELSE exc' = e /\ pc' = "ret"
       \/ \E body \in DeviceBodies :
            /\ res' = [kind |-> "response", status_code |-> 200, text |-> Render(body)]
            /\ sent' = body
            /\ calls' = Append(calls, Call("get", 200))
            /\ IF StatusOk(200)
               THEN exc' = "none" /\ pc' = "parse"
               ELSE exc' = "Error" /\ pc' = "ret"
       \/ \E s \in StatusCodes \ {200} :
            /\ res' = [kind |-> "response", status_code |-> s, text |-> <<>>]
            /\ sent' = <<>>
            /\ calls' = Append(calls, Call("get", s))
            /\ IF StatusOk(s)
               THEN exc' = "none" /\ pc' = "parse"
               ELSE exc' = "Error" /\ pc' = "ret"
    /\ UNCHANGED <<now, delay, next_time, mqtt_connected, allmetrics,
                   first_time, fired, inflight, prev_tick>>

(***************************************************************************)
(* The parse loop over res.text.                                           *)
(***************************************************************************)
Parse ==
    /\ pc = "parse"
    /\ \E r \in {ParseLoop(res.text)} :
         /\ allmetrics' = r.allmetrics
         /\ calls' = Append(calls, Call("parse", r.linecnt))
         /\ exc' = r.exc
         /\ pc' = IF r.exc = "none" THEN "publish" ELSE "ret"
    /\ UNCHANGED <<now, delay, next_time, mqtt_connected, res, first_time,
                   fired, inflight, sent, last_exc, prev_tick>>

(***************************************************************************)
(* if self.mqtt_connected: publish(topic, json.dumps(allmetrics))          *)
(* else: mqtt_connect().  The payload is the JSON array of the metrics,    *)
(* written here as their sequence.  publish() can raise ValueError.        *)
(***************************************************************************)
\* Variant: the else branch is always taken.
ShouldPublishNever(connected) == FALSE

\* Variant: publish without looking at the flag.
ShouldPublishAlways(connected) == TRUE

ShouldPublish(connected) == connected

(***************************************************************************)
(* After mqtt_connect() in the else branch do_repeat is at its end,        *)
(* whatever the attempt gave.                                              *)
(***************************************************************************)
\* Variant: publish in the same tick once the reconnect has succeeded.
AfterReconnectPublish(connected) == IF connected THEN "publish" ELSE "ret"

AfterReconnect(connected) == "ret"

Publish ==
    /\ pc = "publish"
    /\ IF ShouldPublish(mqtt_connected)
       THEN \E raises \in BOOLEAN :
              /\ calls' = calls \o <<Call("if_connected", mqtt_connected),
                                     Call("publish", [topic |-> "topic",
                                                      payload |-> allmetrics])>>
              /\ exc' = IF raises THEN "ValueError" ELSE "none"
              /\ pc' = "ret"
              /\ UNCHANGED mqtt_connected
       ELSE \E connects \in BOOLEAN :
              /\ calls' = calls \o <<Call("if_connected", mqtt_connected),
                                     Call("connect", connects)>>
              /\ mqtt_connected' = mqtt_connect(connects)
              /\ pc' = AfterReconnect(mqtt_connect(connects))
              /\ UNCHANGED exc
    /\ UNCHANGED <<now, delay, next_time, res, allmetrics, first_time, fired,
                   inflight, sent, last_exc, prev_tick>>

(***************************************************************************)
(* except Exception: every exception of the model is a subclass of         *)
(* Exception (Error is declared as one).                                   *)
(***************************************************************************)
Exceptions == {"Error", "IndexError", "ValueError", "ChunkedEncodingError"}

\* Variant: no except clause.
CaughtNothing(e) == FALSE

\* Variant: the except clause names the built-in exceptions only.
CaughtBuiltinOnly(e) == e \in Exceptions \ {"Error"}

Caught(e) == e \in Exceptions

TickSummary ==
    IF \E i \in 1..Len(calls) : calls[i].op = "publish" THEN "published"
    ELSE IF \E i \in 1..Len(calls) : calls[i] = Call("connect", TRUE)
         THEN "reconnected"
    ELSE "other"

(***************************************************************************)
(* task() returns or raises into the try of every().  The frame of         *)
(* do_repeat is gone, and its locals with it; a caught exception is        *)
(* logged and dropped.                                                     *)
(***************************************************************************)
Return ==
    /\ pc = "ret"
    /\ inflight' = inflight - 1
    /\ last_exc' = exc
    /\ prev_tick' = TickSummary
    /\ res' = NoResponse
    /\ sent' = <<>>
    /\ allmetrics' = <<>>
    /\ calls' = <<>>
    /\ IF exc = "none" \/ Caught(exc)
       THEN pc' = "advance" /\ exc' = "none"
       ELSE pc' = "crashed" /\ exc' = exc
    /\ UNCHANGED <<now, delay, next_time, mqtt_connected, first_time, fired>>

(***************************************************************************)
(* next_time += (time.time() - next_time) // delay * delay + delay         *)
(* The clock is read here for the first time since the task was called:    *)
(* the time the task took shows in this reading.                           *)
(***************************************************************************)
\* Variant: one interval per tick, missed fires stay due.
NextFireNoSkip(next, t, d) == next + d

\* Variant: the number of intervals is rounded up.
NextFireCeil(next, t, d) == next + ((t - next + d - 1) \div d) * d + d

NextFire(next, t, d) == next + ((t - next) \div d) * d + d

Advance ==
    /\ pc = "advance"
    /\ \E t \in now..MaxTime :
         /\ now' = t
         /\ next_time' = NextFire(next_time, t, delay)
    /\ pc' = "sleep"
    /\ UNCHANGED <<delay, mqtt_connected, res, allmetrics, exc, first_time,
                   fired, inflight, sent, calls, last_exc, prev_tick>>

Next ==
    \/ Construct
    \/ Sleep
    \/ CallTask
    \/ Fetch
    \/ Parse
    \/ Publish
    \/ Return
    \/ Advance

Spec == Init /\ [][Next]_vars

(***************************************************************************)
(* Reading the history variables.                                          *)
(***************************************************************************)
Did(op, arg) == \E i \in 1..Len(calls) : calls[i] = Call(op, arg)

CountOp(op) == Cardinality({i \in 1..Len(calls) : calls[i].op = op})

InTask == pc \in {"fetch", "parse", "publish", "ret"}

\* do_repeat has done all it does and is about to return or raise.
TickDone == pc = "ret"

\* A tick has run and next_time has been advanced after it; now is the
\* clock reading the advance used.
Advanced == pc = "sleep" /\ fired >= 0

(***************************************************************************)
(* C1.  Whatever exception the task raises (Error on a non-200 status,     *)
(* IndexError or ValueError from a malformed row, an exception of          *)
(* publish or of the request), every() catches it: the scheduler loop      *)
(* never ends, the next fire time is advanced past the failed tick, and    *)
(* the loop goes on to the next sleep and call.                            *)
(***************************************************************************)
C1_TaskFailureContained ==
    /\ pc # "crashed"
    /\ last_exc \in Exceptions => pc \in {"advance", "sleep", "call", "fetch"}
    /\ (last_exc \in Exceptions /\ pc \in {"sleep", "call"}) => next_time > fired
    /\ (last_exc \in Exceptions /\ pc = "fetch") => fired = next_time

\* The task is called again after a tick that raised IndexError.
C1_Witness == pc = "fetch" /\ last_exc = "IndexError" /\ exc = "none"

(***************************************************************************)
(* C2 as stated: after a tick whose GET was answered with a status other   *)
(* than 200 the worker has crashed, no further tick is executed.           *)
(***************************************************************************)
C2_Original == ~(last_exc = "Error" /\ InTask)

(***************************************************************************)
(* C2 amended.  A status other than 200 makes do_repeat raise Error, with  *)
(* nothing parsed and nothing published; every() catches the Error, the    *)
(* worker does not crash and goes on to advance, sleep and call the task   *)
(* again.                                                                  *)
(***************************************************************************)
C2_ErrorIsCaught ==
    /\ (TickDone /\ res.kind = "response" /\ res.status_code # 200) =>
           /\ exc = "Error"
           /\ calls = <<Call("get", res.status_code)>>
    /\ last_exc = "Error" =>
           /\ pc \in {"advance", "sleep", "call", "fetch"}
           /\ exc = "none"

\* The task is called again after a tick that raised Error.
C2_Witness == pc = "fetch" /\ last_exc = "Error" /\ inflight = 1

(***************************************************************************)
(* C3.  Skip-ahead: when the tick that fired at t = fired finishes at      *)
(* now >= t, the new next_time is the first boundary t + k * delay, k >= 1,*)
(* that is strictly greater than now.  It is aligned with the first fire   *)
(* time modulo delay and lies in (now, now + delay]: the fires missed      *)
(* during an overrun are skipped.                                          *)
(***************************************************************************)
C3_SkipAhead ==
    (Advanced /\ now >= fired) =>
        /\ \E k \in 1..(MaxTime + 1) :
             /\ next_time = fired + k * delay
             /\ next_time > now
             /\ next_time - delay <= now
        /\ (next_time - first_time) % delay = 0
        /\ now < next_time /\ next_time <= now + delay

\* Interval 2, fired at 0, overrun to 5: the next fire time is 6, the
\* fires at 2 and 4 are skipped (interval 10, overrun to 25, gives 30).
C3_Witness ==
    Advanced /\ delay = 2 /\ fired = 0 /\ first_time = 0 /\ now = 5 /\ next_time = 6

(***************************************************************************)
(* C4 as stated: next_time is advanced by ceil((now - old) / delay)        *)
(* intervals plus one more interval.                                       *)
(***************************************************************************)
CeilDiv(a, d) == CHOOSE k \in 0..(a + 1) : k * d >= a /\ (k = 0 \/ (k - 1) * d < a)

FloorDiv(a, d) == CHOOSE k \in 0..a : k * d <= a /\ (k + 1) * d > a

C4_Original ==
    (Advanced /\ now >= fired) =>
        next_time = fired + CeilDiv(now - fired, delay) * delay + delay

(***************************************************************************)
(* C4 amended.  next_time is advanced by the largest whole number of       *)
(* intervals that does not pass now, and then by one more interval:        *)
(* new = old + floor((now - old) / delay) * delay + delay, for every       *)
(* completion time now >= old.                                             *)
(***************************************************************************)
C4_FloorAdvance ==
    (Advanced /\ now >= fired) =>
        next_time = fired + FloorDiv(now - fired, delay) * delay + delay

\* A completion time that is no multiple of the interval after the fire
\* time, where rounding down and rounding up differ.
C4_Witness == Advanced /\ delay = 2 /\ now - fired = 3 /\ next_time = fired + 4

(***************************************************************************)
(* C5.  Publish-skip: a tick that reaches the publish step with            *)
(* mqtt_connected false makes no publish call and exactly one connect      *)
(* attempt, and raises nothing, whether the attempt succeeds or fails.     *)
(***************************************************************************)
C5_PublishSkip ==
    (InTask /\ Did("if_connected", FALSE)) =>
        /\ CountOp("publish") = 0
        /\ CountOp("connect") = 1
        /\ exc = "none"
        /\ res.status_code = 200

\* The flag was false at the publish step and the connect attempt failed.
C5_Witness ==
    TickDone /\ Did("if_connected", FALSE) /\ Did("connect", FALSE) /\ ~mqtt_connected

(***************************************************************************)
(* What the rows the device sent should give, read off the rows            *)
(* themselves and not off the text.  A row is well formed when it has the  *)
(* seven fields the code reads (the device sends more), none of them       *)
(* holding a separator or a line break, and its value and multiplier are   *)
(* numbers.                                                                *)
(***************************************************************************)
PlainField(f) == \A i \in 1..Len(f) : f[i] \notin {SEMI, LF, CR}

WellFormed(row) ==
    /\ Len(row.fields) >= 7
    /\ \A i \in 1..Len(row.fields) : PlainField(row.fields[i])
    /\ IsFloat(row.fields[4])
    /\ IsFloat(row.fields[6])

AllWellFormed(rows) == \A i \in 1..Len(rows) : WellFormed(rows[i])

ExpectedMetric(row) ==
    LET f == row.fields
        n == Normalize(f[2], f[7], ScaledValue(f[4], f[6])) IN
    [id |-> f[1], descriptor |-> f[2], type |-> f[3], value |-> n.value,
     description |-> strip(f[5]), unit |-> n.unit, unit_zabbix |-> n.unit_zabbix]

ExpectedMetrics(rows) == [i \in 1..Len(rows) |-> ExpectedMetric(rows[i])]

(***************************************************************************)
(* C6.  A tick makes at most one publish call, and it makes one if and     *)
(* only if its fetch returned status 200, every row of the body parsed     *)
(* and mqtt_connected was true at the publish step.                        *)
(***************************************************************************)
C6_OnePublishPerGoodTick ==
    /\ CountOp("publish") <= 1
    /\ TickDone =>
         (CountOp("publish") = 1 <=>
             /\ res.kind = "response"
             /\ res.status_code = 200
             /\ AllWellFormed(sent)
             /\ Did("if_connected", TRUE))

\* A tick that published a body of two rows, and one that published and
\* had publish raise.
C6_Witness ==
    TickDone /\ CountOp("publish") = 1 /\ Len(sent) = 2 /\ exc = "ValueError"

(***************************************************************************)
(* C7.  No buffering: the payload of a publish call is the metrics of the  *)
(* body fetched in the same tick and nothing else; a tick whose publish    *)
(* was skipped publishes nothing, also when its reconnect succeeded; and   *)
(* no metrics exist when the next tick starts, so none can be published    *)
(* later.                                                                  *)
(***************************************************************************)
C7_NoBuffering ==
    /\ \A i \in 1..Len(calls) :
         calls[i].op = "publish" =>
             /\ calls[i].arg.payload = ExpectedMetrics(sent)
             /\ res.status_code = 200
    /\ Did("if_connected", FALSE) => CountOp("publish") = 0
    /\ pc \in {"advance", "sleep", "call", "fetch"} =>
         /\ allmetrics = <<>>
         /\ res = NoResponse
         /\ CountOp("publish") = 0

\* A tick that parsed metrics, skipped the publish and reconnected.
C7_Witness ==
    /\ TickDone
    /\ Did("if_connected", FALSE) /\ Did("connect", TRUE)
    /\ mqtt_connected
    /\ Len(allmetrics) = 2

(***************************************************************************)
(* C8.  Each tick issues exactly one GET.  When the GET fails with         *)
(* ConnectionError the tick is abandoned: no second GET, nothing parsed,   *)
(* nothing published, no connect attempt, no exception; the next GET is    *)
(* that of the next tick.                                                  *)
(***************************************************************************)
C8_OneGetPerTick ==
    /\ pc = "fetch" => CountOp("get") = 0
    /\ pc \in {"parse", "publish", "ret"} => CountOp("get") = 1
    /\ pc \in {"advance", "sleep", "call"} => CountOp("get") = 0
    /\ (TickDone /\ res.kind = "ConnectionError") =>
         /\ calls = <<Call("get", "ConnectionError")>>
         /\ allmetrics = <<>>
         /\ exc = "none"

\* A tick whose GET failed with ConnectionError, at its end.
C8_Witness == TickDone /\ res.kind = "ConnectionError" /\ fired > first_time

(***************************************************************************)
(* C9.  Ticks are strictly sequential: at most one call of the task is in  *)
(* flight, a call is in flight exactly while the thread is inside          *)
(* do_repeat, the task is called only between two of its returns, and no   *)
(* tick starts before next_time has been reached.                          *)
(***************************************************************************)
C9_SequentialTicks ==
    /\ inflight \in {0, 1}
    /\ inflight = 1 <=> InTask
    /\ pc = "call" => inflight = 0
    /\ pc \in {"call", "fetch", "parse", "publish", "ret"} => now >= next_time

\* A later tick in flight, started late.
C9_Witness == pc = "fetch" /\ inflight = 1 /\ fired > first_time /\ now > next_time

(***************************************************************************)
(* C10.  For a body of N well-formed rows, N >= 0, the parse loop gives    *)
(* exactly N metrics and raises nothing; the i-th metric carries id,       *)
(* descriptor and type of the i-th row.                                    *)
(***************************************************************************)
C10_OneMetricPerRow ==
    (pc \in {"publish", "ret"} /\ res.status_code = 200 /\ AllWellFormed(sent)) =>
        /\ Did("parse", Len(sent))
        /\ pc = "publish" => exc = "none"
        /\ Len(allmetrics) = Len(sent)
        /\ \A i \in 1..Len(sent) :
             /\ allmetrics[i].id = sent[i].fields[1]
             /\ allmetrics[i].descriptor = sent[i].fields[2]
             /\ allmetrics[i].type = sent[i].fields[3]

\* Two different well-formed rows have been parsed.
C10_Witness ==
    /\ pc = "publish"
    /\ Len(sent) = 2 /\ AllWellFormed(sent) /\ sent[1] # sent[2]
    /\ Len(allmetrics) = 2

(***************************************************************************)
(* C11 as stated: empty lines among well-formed rows are skipped, one      *)
(* metric is produced per non-empty row, and the parse of the tick does    *)
(* not fail (the tick reaches the publish step).                           *)
(***************************************************************************)
IsEmptyRow(row) == row.fields = << <<>> >>

NonEmptyRows(rows) == SelectSeq(rows, LAMBDA r : ~IsEmptyRow(r))

EmptyAmongWellFormed(rows) ==
    /\ \E i \in 1..Len(rows) : IsEmptyRow(rows[i])
    /\ \E i \in 1..Len(rows) : WellFormed(rows[i])
    /\ \A i \in 1..Len(rows) : IsEmptyRow(rows[i]) \/ WellFormed(rows[i])

C11_EmptyLinesSkipped ==
    (TickDone /\ res.status_code = 200 /\ EmptyAmongWellFormed(sent)) =>
        /\ CountOp("if_connected") = 1
        /\ Len(allmetrics) = Len(NonEmptyRows(sent))

(***************************************************************************)
(* C12 as stated: a row whose field count is not 15, or whose rawValue is  *)
(* not numeric, makes the parse fail for the whole tick and nothing is     *)
(* published.                                                              *)
(***************************************************************************)
MalformedAsStated(row) == Len(row.fields) # 15 \/ ~IsFloat(row.fields[4])

C12_Original ==
    (TickDone /\ res.status_code = 200
        /\ \E i \in 1..Len(sent) : MalformedAsStated(sent[i])) =>
        /\ CountOp("publish") = 0
        /\ exc \in {"IndexError", "ValueError"}

(***************************************************************************)
(* C12 amended.  All-or-nothing parse: if any row of the body has fewer    *)
(* than the 7 fields the code reads, or a rawValue or multiplier that      *)
(* float() rejects, the parse fails for the whole tick with IndexError or  *)
(* ValueError: nothing is published, not even the metrics of the rows      *)
(* before it, no connect attempt is made, and every() catches the          *)
(* failure.  A row with 7 or more fields is parsed whatever their number.  *)
(***************************************************************************)
C12_AllOrNothing ==
    /\ (TickDone /\ res.status_code = 200
           /\ \E i \in 1..Len(sent) : ~WellFormed(sent[i])) =>
           /\ CountOp("publish") = 0
           /\ CountOp("connect") = 0
           /\ CountOp("if_connected") = 0
           /\ exc \in {"IndexError", "ValueError"}
    /\ last_exc \in {"IndexError", "ValueError"} =>
           /\ pc \in {"advance", "sleep", "call", "fetch"}
           /\ prev_tick \in {"other", "published"}

\* A well-formed row was parsed, the row after it has no numeric value,
\* and the bus is connected: nothing was published.
C12_Witness ==
    /\ TickDone
    /\ sent = <<RowFrequency, RowText>>
    /\ Len(allmetrics) = 1
    /\ mqtt_connected
    /\ exc = "ValueError"
    /\ CountOp("publish") = 0


(***************************************************************************)
(* The parse loop on its own: one tick that has fetched a 200 response     *)
(* with a body of one row, the row's descriptor, unit, rawValue and        *)
(* multiplier drawn from the sets below, and the parse loop as the only    *)
(* step.  The descriptors are the two the code compares with, the row the  *)
(* source quotes and a name that differs from a timestamp descriptor in    *)
(* its last part; the units are the three the rules rewrite, the three     *)
(* they produce, 'unixtime', a plain one and the empty string.             *)
(***************************************************************************)
RowDescriptors ==
    {BackupTimestamp, SendProtocolTimestamp,
     <<"SystemState.Global.Measurement.ACFrequency">>,
     <<"SystemState_persistent.Global.LastSystemBackupTimestamps">>}

RowUnits ==
    {<<"mA">>, <<"kWh">>, <<"h">>, <<"A">>, <<"!kWh">>, <<"s">>,
     <<"unixtime">>, <<"Hz">>, <<>>}

RowRawValues == {<<"5", ".", "0">>, <<"2">>, <<"0", ".", "2", "5">>}

RowMultipliers ==
    {UnitMultiplier, <<"1", ".", "0">>, <<"0", ".", "5">>, <<"1", "0">>}

RowOf(descriptor, rawvalue, multiplier, unit) ==
    [fields |-> << <<"11305">>, descriptor, <<"F">>, rawvalue,
                   <<QUOTE, "AC Netz Frequenz", QUOTE>>, multiplier, unit >>,
     eol |-> <<LF>>]

SingleRows ==
    {RowOf(d, r, m, u) : d \in RowDescriptors, r \in RowRawValues,
                         m \in RowMultipliers, u \in RowUnits}

RowInit ==
    /\ pc = "parse"
    /\ now = 0
    /\ delay = 1
    /\ next_time = 0
    /\ mqtt_connected \in BOOLEAN
    /\ \E row \in SingleRows :
         /\ res = [kind |-> "response", status_code |-> 200,
                   text |-> Render(<<row>>)]
         /\ sent = <<row>>
    /\ allmetrics = <<>>
    /\ exc = "none"
    /\ first_time = 0
    /\ fired = 0
    /\ inflight = 1
    /\ calls = <<Call("get", 200)>>
    /\ last_exc = "none"
    /\ prev_tick = "none"

RowNext == Parse

RowSpec == RowInit /\ [][RowNext]_vars

(***************************************************************************)
(* Reading a parsed row.  Parsed: the parse loop has run over a one-row    *)
(* body.  The numbers of the reference are integers: a rawValue literal in *)
(* hundredths and a multiplier literal in tenths, read off the literal,    *)
(* and a metric's value in thousandths.                                    *)
(***************************************************************************)
Parsed == pc # "parse" /\ Len(sent) = 1 /\ Did("parse", 1)

RowDescriptor == sent[1].fields[2]
RowRawValue == sent[1].fields[4]
RowMultiplier == sent[1].fields[6]
RowUnit == sent[1].fields[7]

RawHundredths(literal) ==
    CASE literal = <<"5", ".", "0">> -> 500
      [] literal = <<"2">> -> 200
      [] literal = <<"0", ".", "2", "5">> -> 25

MultiplierTenths(literal) ==
    CASE literal = <<"1", ".", "0", "0", "0", "0", "0", "0">> -> 10
      [] literal = <<"1", ".", "0">> -> 10
      [] literal = <<"0", ".", "5">> -> 5
      [] literal = <<"1", "0">> -> 100

RECURSIVE Pow10(_)
Pow10(n) == IF n = 0 THEN 1 ELSE 10 * Pow10(n - 1)

Thousandths(value) == value.m * Pow10(3 - value.e)

\* The multiplier-scaled value of the row, before the unit rules.
RowScaledThousandths ==
    IF RowMultiplier = <<"1", ".", "0", "0", "0", "0", "0", "0">>
    THEN RawHundredths(RowRawValue) * 10
    ELSE RawHundredths(RowRawValue) * MultiplierTenths(RowMultiplier)

IsTimestampDescriptor(d) ==
    \/ d = <<"SystemState_persistent.Global.LastSystemBackupTimestamp">>
    \/ d = <<"SystemState_persistent.SolarPortal.LastSendProtocolTimestamp">>

\* The reference mapping of the unit rules: <<unit, unit_zabbix, factor>>.
ReferenceUnit(u) ==
    CASE u = <<"mA">> -> << <<"A">>, <<"A">>, 1000 >>
      [] u = <<"kWh">> -> << <<"kWh">>, <<"!kWh">>, 1 >>
      [] u = <<"h">> -> << <<"s">>, <<"s">>, 3600 >>
      [] OTHER -> << u, u, 1 >>

\* How many of the three unit rules change (unit, unit_zabbix, value).
RulesRewriting(unit, value) ==
    LET u0 == [unit |-> unit, unit_zabbix |-> unit, value |-> value]
        u1 == RuleMilliAmpere(u0)
        u2 == RuleKiloWattHour(u1)
        u3 == RuleHour(u2)
    IN  Cardinality({k \in 1..3 : <<u0, u1, u2, u3>>[k] # <<u0, u1, u2, u3>>[k + 1]})

(***************************************************************************)
(* C13  Unit rules.  For a row whose descriptor is none of the two         *)
(* timestamp descriptors, the metric's unit, unit_zabbix and value are     *)
(* those of the reference mapping applied to the device unit and the       *)
(* multiplier-scaled value: mA -> (A, A, v*1000), kWh -> (kWh, !kWh, v),   *)
(* h -> (s, s, v*3600), any other u -> (u, u, v); and at most one of the   *)
(* three rules rewrites the row.                                           *)
(***************************************************************************)
C13_UnitRules ==
    (Parsed /\ ~IsTimestampDescriptor(RowDescriptor)) =>
        /\ exc = "none" /\ Len(allmetrics) = 1
        /\ allmetrics[1].unit = ReferenceUnit(RowUnit)[1]
        /\ allmetrics[1].unit_zabbix = ReferenceUnit(RowUnit)[2]
        /\ Thousandths(allmetrics[1].value)
               = RowScaledThousandths * ReferenceUnit(RowUnit)[3]
        /\ RulesRewriting(RowUnit, ScaledValue(RowRawValue, RowMultiplier)) <= 1

C13_Witness ==
    /\ Parsed /\ ~IsTimestampDescriptor(RowDescriptor)
    /\ RowUnit = <<"kWh">> /\ RowMultiplier = <<"0", ".", "5">>
    /\ RowRawValue = <<"0", ".", "2", "5">>
    /\ allmetrics[1].unit_zabbix = <<"!kWh">>
    /\ allmetrics[1].value = [m |-> 125, e |-> 3]

(***************************************************************************)
(* C14  Timestamp override.  For a row with one of the two timestamp       *)
(* descriptors unit_zabbix is 'unixtime' whatever the device unit is,      *)
(* while unit and value are those of the unit rule; for any other          *)
(* descriptor unit_zabbix is 'unixtime' only if the device unit is.        *)
(***************************************************************************)
C14_TimestampOverride ==
    Parsed =>
        /\ exc = "none" /\ Len(allmetrics) = 1
        /\ IsTimestampDescriptor(RowDescriptor) =>
               /\ allmetrics[1].unit_zabbix = <<"unixtime">>
               /\ allmetrics[1].unit = ReferenceUnit(RowUnit)[1]
               /\ Thousandths(allmetrics[1].value)
                      = RowScaledThousandths * ReferenceUnit(RowUnit)[3]
        /\ (~IsTimestampDescriptor(RowDescriptor)
                /\ allmetrics[1].unit_zabbix = <<"unixtime">>) =>
               RowUnit = <<"unixtime">>

C14_Witness ==
    /\ Parsed
    /\ RowDescriptor = <<"SystemState_persistent.SolarPortal.LastSendProtocolTimestamp">>
    /\ RowUnit = <<"h">> /\ RowRawValue = <<"2">>
    /\ RowMultiplier = <<"1", ".", "0", "0", "0", "0", "0", "0">>
    /\ allmetrics[1].unit = <<"s">>
    /\ allmetrics[1].unit_zabbix = <<"unixtime">>
    /\ allmetrics[1].value = [m |-> 7200, e |-> 0]

(***************************************************************************)
(* C15  Normalization is total and idempotent.  Every row with a numeric   *)
(* value gives a metric with a unit, a unit_zabbix and a value, whatever   *)
(* its descriptor and unit; and the unit rules applied to that metric's    *)
(* descriptor, unit and value give the same unit, unit_zabbix and value    *)
(* again.                                                                  *)
(***************************************************************************)
C15_TotalIdempotent ==
    Parsed =>
        /\ exc = "none" /\ Len(allmetrics) = 1
        /\ LET m == allmetrics[1]
               n == Normalize(m.descriptor, m.unit, m.value)
           IN  /\ n.unit = m.unit
               /\ n.unit_zabbix = m.unit_zabbix
               /\ n.value = m.value

C15_Witness ==
    /\ Parsed
    /\ RowUnit = <<"h">> /\ RowRawValue = <<"2">> /\ RowMultiplier = <<"1", ".", "0">>
    /\ ~IsTimestampDescriptor(RowDescriptor)
    /\ allmetrics[1].unit = <<"s">>
    /\ allmetrics[1].value = [m |-> 7200, e |-> 0]
    /\ Normalize(allmetrics[1].descriptor, allmetrics[1].unit, allmetrics[1].value).value
           = [m |-> 7200, e |-> 0]

(***************************************************************************)
(* C16  Multiplier rule.  The value is rawValue * multiplier * factor for  *)
(* any multiplier field other than '1.000000', '1.0' included, and         *)
(* rawValue * factor for '1.000000', where the factor is 1000 for mA,      *)
(* 3600 for h and 1 otherwise: the unit factor comes after the             *)
(* multiplier.  mA with rawValue 5.0 and multiplier '1.000000' gives 5000, *)
(* h with rawValue 2 gives 7200.                                           *)
(***************************************************************************)
UnitFactor(u) == IF u = <<"mA">> THEN 1000 ELSE IF u = <<"h">> THEN 3600 ELSE 1

C16_MultiplierRule ==
    Parsed =>
        /\ exc = "none" /\ Len(allmetrics) = 1
        /\ RowMultiplier # <<"1", ".", "0", "0", "0", "0", "0", "0">> =>
               Thousandths(allmetrics[1].value)
                   = RawHundredths(RowRawValue) * MultiplierTenths(RowMultiplier)
                         * UnitFactor(RowUnit)
        /\ RowMultiplier = <<"1", ".", "0", "0", "0", "0", "0", "0">> =>
               Thousandths(allmetrics[1].value)
                   = RawHundredths(RowRawValue) * 10 * UnitFactor(RowUnit)
        /\ (RowUnit = <<"mA">> /\ RowRawValue = <<"5", ".", "0">>
                /\ RowMultiplier = <<"1", ".", "0", "0", "0", "0", "0", "0">>) =>
               allmetrics[1].value = [m |-> 5000, e |-> 0]
        /\ (RowUnit = <<"h">> /\ RowRawValue = <<"2">>
                /\ MultiplierTenths(RowMultiplier) = 10) =>
               allmetrics[1].value = [m |-> 7200, e |-> 0]

C16_Witness ==
    /\ Parsed
    /\ RowUnit = <<"mA">> /\ RowRawValue = <<"5", ".", "0">>
    /\ RowMultiplier = <<"0", ".", "5">>
    /\ allmetrics[1].unit = <<"A">>
    /\ allmetrics[1].value = [m |-> 2500, e |-> 0]


(***************************************************************************)
(* C17  Startup.  Before the first tick __init__ makes exactly one connect *)
(* attempt, and the flag is its outcome; whatever the outcome, the thread  *)
(* enters the loop of every() with next_time the time it read, so that the *)
(* first sleep is a sleep of zero and the first tick fires for the start   *)
(* time, not one interval later.                                           *)
(***************************************************************************)
C17_Startup ==
    /\ pc = "init" => calls = <<>> /\ fired = -1
    /\ (pc # "init" /\ fired = -1) =>
           /\ pc \in {"sleep", "call"}
           /\ calls = <<Call("connect", mqtt_connected)>>
           /\ next_time = first_time
    /\ (pc = "sleep" /\ fired = -1) => next_time = now
    /\ (InTask /\ prev_tick = "none") => fired = first_time /\ now >= fired

\* The connect attempt failed and the first tick is in flight, fired for
\* the time the thread started at.
C17_Witness ==
    /\ pc = "fetch" /\ prev_tick = "none" /\ ~mqtt_connected
    /\ first_time = 1 /\ fired = 1 /\ now = 1

(***************************************************************************)
(* C18  Lazy reconnect makes progress.  A good tick is one whose fetch     *)
(* returns 200 with a well-formed body while the bus accepts connections.  *)
(* A good tick publishes, or it reconnects and leaves the flag true; a     *)
(* good tick that follows a tick that published or reconnected publishes.  *)
(* So of consecutive good ticks the second at the latest publishes, and    *)
(* every one after it.                                                     *)
(***************************************************************************)
GoodTick ==
    /\ res.kind = "response" /\ res.status_code = 200
    /\ AllWellFormed(sent)
    /\ ~Did("connect", FALSE)

C18_ReconnectProgress ==
    /\ (TickDone /\ GoodTick) =>
           \/ CountOp("publish") = 1
           \/ Did("connect", TRUE) /\ mqtt_connected
    /\ (TickDone /\ GoodTick /\ prev_tick \in {"published", "reconnected"}) =>
           CountOp("publish") = 1 /\ CountOp("connect") = 0

\* The tick before reconnected without publishing, this one publishes.
C18_Witness ==
    /\ TickDone /\ GoodTick /\ prev_tick = "reconnected"
    /\ sent = <<RowFrequency>>
    /\ CountOp("publish") = 1

(***************************************************************************)
(* C19  The flag is monotone.  mqtt_connected changes only in a step that  *)
(* calls mqtt_connect, and becomes its outcome; a tick calls mqtt_connect  *)
(* only after it has found the flag false at the publish step, and then    *)
(* once.  So a flag that is true stays true, no connect attempt follows,   *)
(* and every later tick whose fetch and parse succeed calls publish.       *)
(***************************************************************************)
ConnectStep ==
    /\ Len(calls') > 0
    /\ calls'[Len(calls')] = Call("connect", mqtt_connected')
    /\ calls' # calls

FlagStep ==
    /\ mqtt_connected' # mqtt_connected => ConnectStep
    /\ mqtt_connected => mqtt_connected'
    /\ mqtt_connected => ~ConnectStep

C19_FlagMonotone ==
    /\ [][FlagStep]_vars
    /\ [](InTask /\ CountOp("connect") > 0 =>
              CountOp("connect") = 1 /\ Did("if_connected", FALSE))
    /\ [](TickDone /\ mqtt_connected /\ ~Did("if_connected", FALSE)
               /\ res.status_code = 200 /\ AllWellFormed(sent) =>
              CountOp("publish") = 1 /\ Did("if_connected", TRUE))

\* A later tick finds the flag true and calls publish, which raises: the
\* connection has been lost, the flag has not changed.
C19_Witness ==
    /\ TickDone /\ mqtt_connected /\ Did("if_connected", TRUE)
    /\ prev_tick = "published" /\ fired > first_time
    /\ CountOp("publish") = 1 /\ exc = "ValueError"

(***************************************************************************)
(* C20  A tick that does not reach the publish step, because the request   *)
(* raised ConnectionError, the status was not 200 or a row was malformed,  *)
(* does not call mqtt_connect, and no step of a tick other than the        *)
(* publish step changes mqtt_connected.  While the flag is false and the   *)
(* fetch fails, no connect attempt is made.                                *)
(***************************************************************************)
PublishStepNotReached ==
    \/ res.kind \in GetExceptions
    \/ res.kind = "response" /\ res.status_code # 200
    \/ res.kind = "response" /\ ~AllWellFormed(sent)

FrameStep ==
    (pc \in {"fetch", "parse", "ret"} /\ pc' # "publish") =>
        mqtt_connected' = mqtt_connected

C20_PublisherUntouched ==
    /\ [](TickDone /\ PublishStepNotReached =>
              /\ CountOp("connect") = 0
              /\ CountOp("if_connected") = 0
              /\ CountOp("publish") = 0)
    /\ [][FrameStep]_vars

\* The second failing fetch in a row with the bus not connected.
C20_Witness ==
    /\ TickDone /\ ~mqtt_connected /\ res.kind = "ConnectionError"
    /\ prev_tick = "other" /\ fired > first_time
    /\ CountOp("connect") = 0

=============================================================================
